---- MODULE Spec2Model ----
(***************************************************************************)
(* Model of smart_email_summarizer.py: the content extractor, the          *)
(* summarization adapter with its retry wrapper, the output sink and the   *)
(* orchestrator loop of main.                                              *)
(*                                                                         *)
(* Text is a sequence of tokens (characters for decoded bytes, words for   *)
(* summaries); bytes are integers.  The mail server and the summarization  *)
(* backends are the environment: their answers are nondeterministic.       *)
(***************************************************************************)
EXTENDS Integers, Sequences, FiniteSets, TLC

\* ------------------------------------------------------------- bounds
\* Largest number of sub-parts of a multipart message.
MaxParts == 2
\* Largest number of words (plain or RFC 2047 encoded) in a Subject header.
MaxWords == 2
\* Largest number of messages in the inbox.
MaxMailbox == 2

\* ------------------------------------------------------ program constants
\* "-" * 40, the separator line of a record.
DashCount == 40
\* The default message count of main.
DefaultCount == 5

\* Python's None; also what str(None) renders as.
None == "None"

\* ---------------------------------------------------------------- helpers
Max(a, b) == IF a >= b THEN a ELSE b

IsPrefix(s, t) == Len(s) <= Len(t) /\ SubSeq(t, 1, Len(s)) = s

\* All sequences over S of length lo..hi.
SeqsOf(S, lo, hi) == UNION {[1..k -> S] : k \in lo..hi}

\* s * k for a one-token string s.
Repeat(s, k) == [i \in 1..k |-> s]

\* ------------------------------------------------------------ decoding
\* The byte alphabet is space (32), "a" (97) and 0xFF (never valid in UTF-8).
CharOf(b) == CASE b = 32 -> " " [] b = 97 -> "a" [] b = 255 -> "<U+00FF>"

IsAscii(b) == b < 128

\* The codecs Python can look up, among the character sets of the model.
KnownCodecs == {"utf-8", "latin-1"}
Charsets == KnownCodecs \cup {"x-unknown"}

\* bytes.decode(codec, errors="ignore"): LookupError for a codec that does not
\* exist; UTF-8 drops the bytes that are not valid; Latin-1 maps every byte.
BytesDecode(bs, codec) ==
    IF codec \notin KnownCodecs
    THEN [raised |-> TRUE, text |-> <<>>]
    ELSE LET kept == IF codec = "utf-8" THEN SelectSeq(bs, IsAscii) ELSE bs
         IN [raised |-> FALSE, text |-> [i \in 1..Len(kept) |-> CharOf(kept[i])]]

\* x or "utf-8"
OrUtf8(charset) == IF charset = None THEN "utf-8" ELSE charset

\* ------------------------------------------------------------- messages
ContentTypes == {"text/plain", "text/html", "image/png"}
Dispositions == {None, "inline", "attachment"}
Payloads == {<<32>>, <<97, 255>>}

Parts == [ctype : ContentTypes, disp : Dispositions,
          charset : {None, "x-unknown"}, payload : Payloads]

\* A word of a Subject header: plain ASCII text or an encoded word.
SubjectWords ==
    {[encoded |-> FALSE, charset |-> None, data |-> <<97>>]}
    \cup [encoded : {TRUE}, charset : Charsets, data : {<<97, 255>>}]

\* msg.get("Subject", ""): a header that is absent reads as the empty one.
SubjectHeaders == SeqsOf(SubjectWords, 0, MaxWords)

\* A parsed raw message.  A message that is not multipart carries its own
\* content type, charset and payload in parts[1].
RawMessages ==
    [From : {None, "alice@example.com"}, Subject : SubjectHeaders,
     multipart : {TRUE}, parts : SeqsOf(Parts, 1, MaxParts)]
    \cup
    [From : {None, "alice@example.com"}, Subject : SubjectHeaders,
     multipart : {FALSE}, parts : SeqsOf(Parts, 1, 1)]

\* email.header.decode_header: a header without encoded words is one str
\* chunk; otherwise every word is a bytes chunk with its charset (None for
\* plain text) and adjacent chunks of one charset are joined.
RECURSIVE Collapse(_)
Collapse(chunks) ==
    IF Len(chunks) <= 1 THEN chunks
    ELSE LET rest == Collapse(Tail(chunks))
             a == Head(chunks)
             b == Head(rest)
         IN IF a.enc = b.enc
            THEN <<[isBytes |-> TRUE, data |-> a.data \o b.data, enc |-> a.enc]>>
                 \o Tail(rest)
            ELSE <<a>> \o rest

RECURSIVE Concat(_)
Concat(ss) == IF ss = <<>> THEN <<>> ELSE Head(ss) \o Concat(Tail(ss))

DecodeHeader(h) ==
    IF \A i \in 1..Len(h) : ~h[i].encoded
    THEN LET bs == Concat([i \in 1..Len(h) |-> h[i].data])
         IN <<[isBytes |-> FALSE,
               data |-> [i \in 1..Len(bs) |-> CharOf(bs[i])],
               enc |-> None]>>
    ELSE Collapse([i \in 1..Len(h) |->
                     [isBytes |-> TRUE, data |-> h[i].data,
                      enc |-> IF h[i].encoded THEN h[i].charset ELSE None]])

\* msg.walk(): the multipart container itself, then its sub-parts.
Walk(raw) ==
    <<[ctype |-> "multipart/mixed", disp |-> None, charset |-> None,
       payload |-> <<>>]>> \o raw.parts

\* "attachment" in content_disposition
ContainsAttachment(disp) == disp = "attachment"

QualifiesAsPlain(part) ==
    part.ctype = "text/plain" /\ ~ContainsAttachment(part.disp)

QualifiesAsHtml(part) == part.ctype = "text/html"

\* The first loop: the index of the part it breaks at, 0 when it runs through.
FirstPlain(w) ==
    IF \E i \in 1..Len(w) : QualifiesAsPlain(w[i])
    THEN CHOOSE i \in 1..Len(w) :
             QualifiesAsPlain(w[i]) /\ \A j \in 1..(i - 1) : ~QualifiesAsPlain(w[j])
    ELSE 0

\* The fallback loop, likewise.
FirstHtml(w) ==
    IF \E i \in 1..Len(w) : QualifiesAsHtml(w[i])
    THEN CHOOSE i \in 1..Len(w) :
             QualifiesAsHtml(w[i]) /\ \A j \in 1..(i - 1) : ~QualifiesAsHtml(w[j])
    ELSE 0

\* part.get_payload(decode=True).decode(charset, errors="ignore")
DecodePart(part) == BytesDecode(part.payload, OrUtf8(part.charset))

NoBody == [raised |-> FALSE, text |-> <<>>]

SelectBody(raw) ==
    IF raw.multipart
    THEN LET w == Walk(raw)
             i == FirstPlain(w)
             j == FirstHtml(w)
         IN IF i # 0 THEN DecodePart(w[i])
            ELSE IF j # 0 THEN DecodePart(w[j])
            ELSE NoBody
    ELSE IF raw.parts[1].ctype \in {"text/plain", "text/html"}
         THEN DecodePart(raw.parts[1])
         ELSE NoBody

DecodeSubject(raw) ==
    LET first == DecodeHeader(raw.Subject)[1]
    IN IF first.isBytes
       THEN BytesDecode(first.data, OrUtf8(first.enc))
       ELSE [raised |-> FALSE, text |-> first.data]

\* extract_email_content: the triple, or raised = TRUE when a decode raised.
ExtractEmailContent(raw) ==
    LET subject == DecodeSubject(raw)
        body == SelectBody(raw)
    IN IF subject.raised \/ body.raised
       THEN [raised |-> TRUE, sender |-> "", subject |-> <<>>, body |-> <<>>]
       ELSE [raised |-> FALSE,
             sender |-> IF raw.From = None THEN "" ELSE raw.From,
             subject |-> subject.text,
             body |-> body.text]

\* str.strip() on a sequence of tokens: whitespace tokens leave both ends.
IsSpace(c) == c \in {" ", "\n", "\t"}

RECURSIVE LStrip(_)
LStrip(s) == IF s # <<>> /\ IsSpace(Head(s)) THEN LStrip(Tail(s)) ELSE s

RECURSIVE RStrip(_)
RStrip(s) ==
    IF s # <<>> /\ IsSpace(s[Len(s)]) THEN RStrip(SubSeq(s, 1, Len(s) - 1)) ELSE s

Strip(s) == RStrip(LStrip(s))

\* Mutation: "if not body", without the strip.
IsEmptyString(body) == body = <<>>

\* not body.strip()
IsBlank(body) == Strip(body) = <<>>

\* ------------------------------------------------- summarization adapter
\* The prefix try_summarize_text looks for.
Marker == <<"[Summary unavailable">>

ApiErrorMsg == <<"[Summary unavailable", " due to API error]">>
SummarizationErrorMsg == <<"[Summary unavailable", " due to summarization error]">>
NoMethodMsg == <<"[No summarization method available]">>

\* What a backend may answer when it does not raise.
BackendResponses ==
    {<<"Meeting", " moved">>,
     <<"[Summary unavailable", " this week]">>,
     <<" ", "[Summary unavailable", " this week]">>}

\* Python truthiness of an optional string.
Truthy(s) == s # None /\ s # ""

\* summarize_text: every result one call can have.  kind records which branch
\* produced the string: "ok" a backend answer, "error" an exception caught,
\* "unavailable" no method selected.
SummarizeText(text, m, key) ==
    IF m = "openai" /\ Truthy(key)
    THEN {[kind |-> "ok", text |-> Strip(r)] : r \in BackendResponses}
         \cup {[kind |-> "error", text |-> ApiErrorMsg]}
    ELSE IF m = "transformer"
    THEN {[kind |-> "ok", text |-> r] : r \in BackendResponses}
         \cup {[kind |-> "error", text |-> SummarizationErrorMsg]}
    ELSE {[kind |-> "unavailable", text |-> NoMethodMsg]}

\* summary.startswith("[Summary unavailable")
LooksFailed(s) == IsPrefix(Marker, s)

\* ----------------------------------------------------------- output sink
FormatOutput(snd, subj, summ) ==
    <<"From: ", snd, "\n", "Subject: ">> \o subj \o <<"\n", "Summary: ">>
    \o summ \o <<"\n">> \o Repeat("-", DashCount)

\* Mutation: the file opened with mode "w".
OverwriteFile(content, out) == out \o <<"\n">>

\* open(save_file, "a").write(output + "\n")
AppendToFile(content, out) == content \o out \o <<"\n">>

\* ------------------------------------------------------------ main input
Digits == {"0", "1", "2", "3", "4", "5", "6", "7", "8", "9"}

DigitValue(c) == CHOOSE v \in 0..9 : ToString(v) = c

\* str.isdigit()
IsDigit(s) == s # <<>> /\ \A i \in 1..Len(s) : s[i] \in Digits

RECURSIVE ToInt(_)
ToInt(s) ==
    IF s = <<>> THEN 0
    ELSE 10 * ToInt(SubSeq(s, 1, Len(s) - 1)) + DigitValue(s[Len(s)])

\* int(n) if n.isdigit() else 5
ParseCount(s) == IF IsDigit(s) THEN ToInt(s) ELSE DefaultCount

\* What the user may type for the message count.
CountInputs == {<<>>, <<"x">>, <<"0">>, <<"1">>}

\* s[-k:] of a Python list.
SliceLast(s, k) ==
    LET start == IF -k < 0 THEN Max(Len(s) - k, 0) ELSE 0
    IN SubSeq(s, start + 1, Len(s))

\* --------------------------------------------------------------- inbox
SinglePart(ctype, charset, payload) ==
    [From |-> "alice@example.com",
     Subject |-> <<[encoded |-> FALSE, charset |-> None, data |-> <<97>>]>>,
     multipart |-> FALSE,
     parts |-> <<[ctype |-> ctype, disp |-> None, charset |-> charset,
                  payload |-> payload]>>]

PlainMessage == SinglePart("text/plain", None, <<97, 255>>)
BlankMessage == SinglePart("text/plain", None, <<32>>)
BadCharsetMessage == SinglePart("text/plain", "x-unknown", <<97, 255>>)

\* The messages the inbox of the orchestrator model is filled from.
InboxSamples == {PlainMessage, BlankMessage, BadCharsetMessage}

\* ---------------------------------------------------------------- state
VARIABLES
    pc,             \* where main is
    mailbox,        \* the server's inbox: message identifier i holds mailbox[i]
    seen,           \* identifiers flagged \Seen on the server
    method, openai_api_key, n, unread_only, mark_read, save_file,
    email_ids,      \* fetch_emails: the identifiers left after the slice
    fetched,        \* fetch_emails: the list being built
    emails,         \* main: what fetch_emails returned
    idx,            \* position of a loop in its list (1-based)
    sender, subject, body, summary,
    calls,          \* results of the summarize_text calls made for this message
    stdout,         \* everything printed
    file,           \* content of the save file
    log             \* history of the operations performed, in order

vars == <<pc, mailbox, seen, method, openai_api_key, n, unread_only, mark_read,
          save_file, email_ids, fetched, emails, idx, sender, subject, body,
          summary, calls, stdout, file, log>>

config == <<method, openai_api_key, n, unread_only, mark_read, save_file>>
current == <<sender, subject, body, summary, calls>>
sinks == <<stdout, file>>

\* Content the save file may hold from an earlier run.
EarlierContent == <<"From: earlier run", "\n">>

InitCommon ==
    /\ email_ids = <<>>
    /\ fetched = <<>>
    /\ sender = ""
    /\ subject = <<>>
    /\ body = <<>>
    /\ summary = <<>>
    /\ calls = <<>>
    /\ stdout = <<>>

Init ==
    /\ pc = "config"
    /\ mailbox \in SeqsOf(InboxSamples, 0, MaxMailbox)
    /\ seen \in {{}, {1} \cap DOMAIN mailbox}
    /\ method = None
    /\ openai_api_key = None
    /\ n = DefaultCount
    /\ unread_only = TRUE
    /\ mark_read = FALSE
    /\ save_file = None
    /\ emails = <<>>
    /\ idx = 1
    /\ file \in {<<>>, EarlierContent}
    /\ log = <<>>
    /\ InitCommon

\* The identifier of the message main's loop is at.
Eid == emails[idx][1]

\* ----------------------------------------------------------------- main
\* main, lines 155-169: the prompts and their parsing.
ReadConfig ==
    /\ pc = "config"
    /\ \E m \in {"", "transformer", "openai", "bart"}, key \in {"", "sk-1"},
          cnt \in CountInputs, unread \in {"", "n"}, mark \in {"", "y"},
          path \in {"", "out.txt"} :
        /\ method' = (IF m = "" THEN "transformer" ELSE m)
        /\ openai_api_key' = (IF m = "openai" THEN key ELSE None)
        /\ n' = ParseCount(cnt)
        /\ unread_only' = (unread # "n")
        /\ mark_read' = (mark = "y")
        /\ save_file' = (IF path = "" THEN None ELSE path)
    /\ pc' = "search"
    /\ UNCHANGED <<mailbox, seen, email_ids, fetched, emails, idx, current,
                   sinks, log>>

\* The server's answer to SEARCH UNSEEN or SEARCH ALL.
SearchResult ==
    LET ids == [i \in 1..Len(mailbox) |-> i]
        Unseen(i) == i \notin seen
    IN IF unread_only THEN SelectSeq(ids, Unseen) ELSE ids

\* fetch_emails, lines 33-43; on a failed search main finds no emails and returns.
Search ==
    /\ pc = "search"
    /\ \E status \in {"OK", "NO"} :
        IF status # "OK"
        THEN /\ pc' = "done"
             /\ UNCHANGED <<email_ids, idx>>
        ELSE /\ email_ids' = SliceLast(SearchResult, n)
             /\ idx' = 1
             /\ pc' = "fetch"
    /\ UNCHANGED <<mailbox, seen, config, fetched, emails, current, sinks, log>>

\* Mutation: "return fetched" indented into the body of the fetch loop.
ReturnInsideLoop == idx > Len(email_ids) \/ idx > 1

\* The fetch loop has gone through email_ids.
FetchLoopDone == idx > Len(email_ids)

\* fetch_emails, lines 44-47: one iteration of the fetch loop.
FetchOne ==
    /\ pc = "fetch"
    /\ ~FetchLoopDone
    /\ \E status \in {"OK", "NO"} :
        fetched' = IF status = "OK"
                   THEN Append(fetched, <<email_ids[idx], mailbox[email_ids[idx]]>>)
                   ELSE fetched
    /\ log' = Append(log, <<"fetch", email_ids[idx]>>)
    /\ idx' = idx + 1
    /\ UNCHANGED <<pc, mailbox, seen, config, email_ids, emails, current, sinks>>

\* fetch_emails line 48 and main lines 171-174.
FetchReturn ==
    /\ pc = "fetch"
    /\ FetchLoopDone
    /\ emails' = fetched
    /\ idx' = 1
    /\ pc' = IF fetched = <<>> THEN "done" ELSE "loop"
    /\ UNCHANGED <<mailbox, seen, config, email_ids, fetched, current, sinks, log>>

\* main line 176; an exception of extract_email_content ends the program.
ExtractStep ==
    /\ pc = "loop"
    /\ idx <= Len(emails)
    /\ LET r == ExtractEmailContent(emails[idx][2])
       IN /\ sender' = r.sender
          /\ subject' = r.subject
          /\ body' = r.body
          /\ pc' = IF r.raised THEN "crashed" ELSE "check"
    /\ summary' = <<>>
    /\ calls' = <<>>
    /\ log' = Append(log, <<"extract", Eid>>)
    /\ UNCHANGED <<mailbox, seen, config, email_ids, fetched, emails, idx, sinks>>

\* main lines 177-181: continue.
SkipEmpty ==
    /\ pc = "check"
    /\ IsBlank(body)
    /\ log' = Append(log, <<"skip", Eid>>)
    /\ idx' = idx + 1
    /\ pc' = "loop"
    /\ UNCHANGED <<mailbox, seen, config, email_ids, fetched, emails, current,
                   sinks>>

\* try_summarize_text lines 122-123: the first call and the test of its result.
SummarizeFirst ==
    /\ pc = "check"
    /\ ~IsBlank(body)
    /\ \E r \in SummarizeText(body, method, openai_api_key) :
        /\ summary' = r.text
        /\ calls' = <<r>>
        /\ pc' = IF LooksFailed(r.text) THEN "retry" ELSE "output"
    /\ log' = Append(log, <<"summarize", Eid>>)
    /\ UNCHANGED <<mailbox, seen, config, email_ids, fetched, emails, idx,
                   sender, subject, body, sinks>>

\* try_summarize_text lines 124-125: the second call.
SummarizeRetry ==
    /\ pc = "retry"
    /\ \E r \in SummarizeText(body, method, openai_api_key) :
        /\ summary' = r.text
        /\ calls' = Append(calls, r)
    /\ pc' = "output"
    /\ log' = Append(log, <<"summarize", Eid>>)
    /\ UNCHANGED <<mailbox, seen, config, email_ids, fetched, emails, idx,
                   sender, subject, body, sinks>>

\* output_summary, called from main line 183.
OutputSummary ==
    /\ pc = "output"
    /\ LET output == FormatOutput(sender, subject, summary)
       IN /\ stdout' = stdout \o output \o <<"\n">>
          /\ file' = IF Truthy(save_file) THEN AppendToFile(file, output) ELSE file
    /\ log' = Append(log, <<"emit", Eid>>)
    /\ pc' = "mark"
    /\ UNCHANGED <<mailbox, seen, config, email_ids, fetched, emails, idx,
                   current>>

\* Mutation: the flag is not consulted.
AlwaysMark == TRUE

\* if mark_read
ShouldMark == mark_read

\* main lines 184-185, then the next iteration.
MarkStep ==
    /\ pc = "mark"
    /\ IF ShouldMark
       THEN /\ seen' = seen \cup {Eid}
            /\ log' = Append(log, <<"mark", Eid>>)
       ELSE UNCHANGED <<seen, log>>
    /\ idx' = idx + 1
    /\ pc' = "loop"
    /\ UNCHANGED <<mailbox, config, email_ids, fetched, emails, current, sinks>>

\* main line 186.
Logout ==
    /\ pc = "loop"
    /\ idx > Len(emails)
    /\ pc' = "done"
    /\ UNCHANGED <<mailbox, seen, config, email_ids, fetched, emails, idx,
                   current, sinks, log>>

Next ==
    \/ ReadConfig
    \/ Search
    \/ FetchOne
    \/ FetchReturn
    \/ ExtractStep
    \/ SkipEmpty
    \/ SummarizeFirst
    \/ SummarizeRetry
    \/ OutputSummary
    \/ MarkStep
    \/ Logout

Spec == Init /\ [][Next]_vars

\* ------------------------------------------------ the extractor alone
\* main's loop at one fetched message, for every message of RawMessages.
InitExtract ==
    /\ pc = "loop"
    /\ mailbox \in SeqsOf(RawMessages, 1, 1)
    /\ seen = {}
    /\ method = "transformer"
    /\ openai_api_key = None
    /\ n = DefaultCount
    /\ unread_only = TRUE
    /\ mark_read = FALSE
    /\ save_file = None
    /\ emails = <<<<1, mailbox[1]>>>>
    /\ idx = 1
    /\ file = <<>>
    /\ log = <<<<"fetch", 1>>>>
    /\ InitCommon

NextExtract ==
    \/ ExtractStep
    \/ SkipEmpty
    \/ SummarizeFirst

SpecExtract == InitExtract /\ [][NextExtract]_vars

\* ================================================================ claims
\* ------------------------------------------------- vocabulary of the claims
\* The wrapper has returned: main holds its result in summary.
Returned == pc \in {"output", "mark"}

Failed(r) == r.kind # "ok"

\* Tokens that are white space, and a text made of nothing else.
WhiteSpace == {" ", "\t", "\n"}
WhitespaceOnly(s) == \A i \in 1..Len(s) : s[i] \in WhiteSpace

\* The history holds an event of this kind for this message.
Logged(kind, eid) == \E k \in 1..Len(log) : log[k] = <<kind, eid>>

IsFetchEvent(k) == log[k][1] = "fetch"

\* The place of a message in the list main iterates over.
PosOf(eid) == CHOOSE i \in 1..Len(emails) : emails[i][1] = eid

\* The message is through main's loop body (skipped or emitted) before event k.
CompletedBefore(eid, k) ==
    \E m \in 1..(k - 1) : log[m] \in {<<"skip", eid>>, <<"emit", eid>>}

\* The last k elements of s, none when k = 0.
LastN(s, k) == SubSeq(s, Max(1, Len(s) - k + 1), Len(s))

CountOf(s, tok) == Cardinality({i \in 1..Len(s) : s[i] = tok})

\* C1: whenever the first call of summarize_text fails, by an error of the
\* backend or because no method is configured, summarize_text is called exactly
\* once more and the second result is what try_summarize_text returns.
C1_RetryOnAnyFailure ==
    (Returned /\ Failed(calls[1])) =>
        (Len(calls) = 2 /\ summary = calls[2].text)

\* C2: the backend is invoked at most twice; a failure followed by a success
\* returns the success; a backend that fails on both calls has been invoked
\* exactly twice and the wrapper returns a failure placeholder.
C2_TwoCallsOnDoubleFailure ==
    Returned =>
        /\ Len(calls) \in 1..2
        /\ (Len(calls) = 2 /\ Failed(calls[1]) /\ ~Failed(calls[2]))
               => summary = calls[2].text
        /\ (/\ Failed(calls[1])
            /\ IF Len(calls) = 2 THEN Failed(calls[2])
               ELSE \A r \in SummarizeText(body, method, openai_api_key) : Failed(r))
               => /\ Len(calls) = 2
                  /\ summary \in {ApiErrorMsg, SummarizationErrorMsg, NoMethodMsg}

\* C9: when the first call of summarize_text succeeds, whatever the text of the
\* summary, there is no second call and that summary is returned unchanged.
C9_NoRetryAfterSuccess ==
    (calls # <<>> /\ ~Failed(calls[1])) =>
        (pc # "retry" /\ Len(calls) = 1 /\ summary = calls[1].text)

\* C3: a message whose extracted body is empty or only white space is skipped:
\* the step that follows its extraction calls no backend, prints and writes
\* nothing, marks nothing and moves the loop to the next message; no summarize,
\* emit or mark is ever recorded for such a message.
C3_BlankBodySkipped ==
    /\ [](\A k \in 1..Len(log) :
            log[k][1] \in {"summarize", "emit", "mark"}
                => ~WhitespaceOnly(ExtractEmailContent(mailbox[log[k][2]]).body))
    /\ [][(pc = "check" /\ WhitespaceOnly(body))
            => /\ pc' = "loop"
               /\ idx' = idx + 1
               /\ calls' = <<>>
               /\ stdout' = stdout
               /\ file' = file
               /\ seen' = seen]_vars

\* A message was skipped and a later one of the same run was emitted.
C3_Witness ==
    \E j, k \in 1..Len(log) : j < k /\ log[j][1] = "skip" /\ log[k][1] = "emit"

\* C4: a multipart message all of whose parts have disposition "attachment"
\* yields an empty body, and the loop skips it without calling the backend.
\* Stated for the messages whose parts all carry visible text, once the loop
\* has acted on the extracted body.
C4_AttachmentsOnlyEmptyBody ==
    LET raw == mailbox[1]
    IN (/\ raw.multipart
        /\ \A i \in 1..Len(raw.parts) :
               /\ raw.parts[i].disp = "attachment"
               /\ ~WhitespaceOnly(DecodePart(raw.parts[i]).text)
        /\ (Logged("skip", 1) \/ Logged("summarize", 1)))
           => (body = <<>> /\ calls = <<>>)

\* C5: extract_email_content raises for no message.
C5_ExtractNeverRaises == pc # "crashed"

\* C6: the save file only grows at its end: every step leaves the earlier
\* content as a prefix, and an emission with a destination adds exactly the
\* record's four lines and one newline.
C6_AppendOnly ==
    [][/\ IsPrefix(file, file')
       /\ (pc = "output" /\ pc' = "mark" /\ save_file # None)
              => LET block == FormatOutput(sender, subject, summary)
                 IN /\ file' = file \o block \o <<"\n">>
                    /\ CountOf(block, "\n") = 3
                    /\ Len(file') = Len(file) + Len(block) + 1]_vars

\* The same record written twice: the file ends with two copies of it.
C6_Witness ==
    LET rec == FormatOutput(sender, subject, summary) \o <<"\n">>
    IN /\ pc = "mark"
       /\ Len(file) >= 2 * Len(rec)
       /\ SubSeq(file, Len(file) - 2 * Len(rec) + 1, Len(file)) = rec \o rec

\* C7 as stated: between the fetch of a message and the fetch of a later one,
\* the first has been through extraction, summary and emission.
C7_FetchInterleaved ==
    \A j, k \in 1..Len(log) :
        (/\ j < k
         /\ IsFetchEvent(j)
         /\ IsFetchEvent(k)
         /\ \E i \in 1..Len(fetched) : fetched[i][1] = log[j][2])
            => \E m \in (j + 1)..(k - 1) :
                   log[m] \in {<<"skip", log[j][2]>>, <<"emit", log[j][2]>>}

\* C7 amended: every identifier is fetched before the first message is
\* processed, and from then on the messages are processed one at a time in the
\* order of the list: nothing happens to a message before the one ahead of it
\* is through the loop body.
C7_BatchThenSequential ==
    /\ \A j, k \in 1..Len(log) : (j < k /\ IsFetchEvent(k)) => IsFetchEvent(j)
    /\ (\E k \in 1..Len(log) : ~IsFetchEvent(k))
           => Cardinality({k \in 1..Len(log) : IsFetchEvent(k)}) = Len(email_ids)
    /\ \A j, k \in 1..Len(log) :
           (j < k /\ ~IsFetchEvent(j) /\ ~IsFetchEvent(k) /\ log[j][2] # log[k][2])
               => /\ PosOf(log[j][2]) < PosOf(log[k][2])
                  /\ CompletedBefore(log[j][2], k)

\* Two messages were fetched and both went through the loop.
C7_Witness ==
    /\ pc = "done"
    /\ Len(emails) >= 2
    /\ \A i \in 1..Len(emails) :
           Logged("skip", emails[i][1]) \/ Logged("emit", emails[i][1])

\* C8: fetch_emails keeps the last n identifiers of the search, in the order
\* of the search, and main never holds more than n messages.
C8_AtMostLastN ==
    /\ pc = "fetch" => email_ids = LastN(SearchResult, n)
    /\ Len(fetched) <= n
    /\ Len(emails) <= n

\* C10: mark_as_read is issued for a message only with the flag set, only after
\* the record of that message was emitted, never for a skipped message and at
\* most once; the \Seen flags change in no other step.
C10_MarkOnlyAfterEmit ==
    /\ [](\A k \in 1..Len(log) :
            log[k][1] = "mark"
                => /\ mark_read
                   /\ \E j \in 1..(k - 1) : log[j] = <<"emit", log[k][2]>>
                   /\ ~Logged("skip", log[k][2])
                   /\ \A m \in 1..Len(log) : log[m] = log[k] => m = k)
    /\ [][(seen' # seen \/ (Len(log') > Len(log) /\ log'[Len(log')][1] = "mark"))
            => /\ mark_read
               /\ pc = "mark"
               /\ seen' = seen \cup {emails[idx][1]}
               /\ log[Len(log)] = <<"emit", emails[idx][1]>>]_vars

\* A run that skipped one message and marked another as read.
C10_Witness ==
    /\ pc = "done"
    /\ \E j, k \in 1..Len(log) : log[j][1] = "skip" /\ log[k][1] = "mark"

====
